---- MODULE Spec2Model ----
(***************************************************************************)
(* Model of src/main.py: the dinner-time forecast selection of             *)
(* get_dinner_forecast, the request built by generate_jain_menu, and the   *)
(* sequential pipeline of main.                                            *)
(*                                                                         *)
(* Time is counted in whole seconds.  datetime.now carries microseconds,   *)
(* but the target is a whole second and every item["dt"] passes through    *)
(* int(), so neither the comparison now_local >= target_local nor the      *)
(* ordering of the deltas depends on the fraction.                         *)
(***************************************************************************)
EXTENDS Integers, Sequences, FiniteSets, TLC

VARIABLES
    list,       \* data["list"] of the forecast response: the samples' dt values
    cityTz,     \* data["city"]: <<v>> when it holds "timezone": v, NoTz when not
    now,        \* the instant datetime.now reads, seconds since the epoch
    hour,       \* dinner_hour_local
    spc,        \* position of the selector: "input", "selected", "compared"
    cmp,        \* which comparison run was made: "none", "repeat", "default",
                \* "shift" (samples and offset) or "local" (wall clock kept)
    outcome,    \* "none", "returned" or "raised" (the call's result kind)
    chosen,     \* index in list of the sample get_dinner_forecast chose, 0 if none
    target,     \* target_local as seconds of local wall-clock time, 0 if none
    shift,      \* the shift applied by the comparison run, 0 if none
    chosenB,    \* the index chosen by the comparison run, 0 if none
    outcomeB,   \* the result kind of the comparison run
    wx,         \* the weather fields of the items of data["list"], item by item
    env,        \* the names set in os.environ
    pc,         \* the call main makes next, "done" or "failed"
    calls,      \* the network calls made so far, in order
    failure,    \* why the run failed, "none" while it has not
    sends,      \* calls of server.send_message
    sent,       \* messages the SMTP server accepted
    forecast,   \* dinner_forecast, the dict get_dinner_forecast returned
    reply,      \* what the generation service answered
    request,    \* the json= payload of requests.post
    forecastB,  \* the dinner_forecast of a second invocation of generate_jain_menu
    requestB    \* the payload of that second invocation

pvars == <<wx, env, pc, calls, failure, sends, sent, forecast, reply, request,
           forecastB, requestB>>

svars == <<list, cityTz, now, hour, spc, cmp, outcome, chosen, target, shift, chosenB, outcomeB>>

vars == <<svars, pvars>>

\* ---------------------------------------------------------------- bounds
MaxLen == 3

DaySeconds == 86400
HourSeconds == 3600

NoTz == << >>

\* The sample instants offered to the model: a three-hour grid over two days
\* starting at the second day of the epoch, as the provider spaces them.
SampleTimes == {DaySeconds + k * 3 * HourSeconds : k \in {4, 5, 6, 7, 12, 13}}

\* The provider's offsets: UTC, a negative one, a half-hour one.
Offsets == {0, -18000, 19800}

\* Current instants on the second day of the epoch: early morning, late
\* evening, and both sides of 19:00:00 UTC.
Nows == {DaySeconds + 3 * HourSeconds, DaySeconds + 19 * HourSeconds - 1,
         DaySeconds + 19 * HourSeconds, DaySeconds + 22 * HourSeconds}

Hours == 0..23

Shifts == {-18000, 1800, 10800}

\* ------------------------------------------------------- pure functions
Abs(x) == IF x < 0 THEN -x ELSE x

\* TzOffset with the default of another zone in place of 0
TzOffset_Eastern(tz) == IF tz = NoTz THEN -18000 ELSE tz[1]

\* int(city.get("timezone", 0))
TzOffset(tz) == IF tz = NoTz THEN 0 ELSE tz[1]

\* timezone(timedelta(seconds=off)) raises ValueError unless the offset is
\* strictly between -24 hours and 24 hours.
TzValid(off) == -DaySeconds < off /\ off < DaySeconds

\* astimezone(tz) / datetime.now(tz): the wall clock of an instant
LocalWall(t, off) == t + off

\* now_local.replace(hour=h, minute=0, second=0, microsecond=0)
ReplaceHour(wall, h) == (wall \div DaySeconds) * DaySeconds + h * HourSeconds

\* TargetLocal with > in place of >= at line 72
TargetLocal_Strict(t, off, h) ==
    LET now_local == LocalWall(t, off)
        cand == ReplaceHour(now_local, h)
    IN  IF now_local > cand THEN cand + DaySeconds ELSE cand

\* target_local, lines 68-73
TargetLocal(t, off, h) ==
    LET now_local == LocalWall(t, off)
        cand == ReplaceHour(now_local, h)
    IN  IF now_local >= cand THEN cand + DaySeconds ELSE cand

\* Delta without the abs of line 81
Delta_Signed(dt, off, tgt) == LocalWall(dt, off) - tgt

\* Delta with the sample left in UTC against the local target
Delta_Utc(dt, off, tgt) == Abs(dt - tgt)

\* abs((dt_local - target_local).total_seconds())
Delta(dt, off, tgt) == Abs(LocalWall(dt, off) - tgt)

\* BestAfter with <= in place of < at line 82
RECURSIVE BestAfter_Le(_, _, _, _)
BestAfter_Le(l, n, off, tgt) ==
    IF n = 0 THEN <<0, -1>>
    ELSE LET prev == BestAfter_Le(l, n - 1, off, tgt)
             delta == Delta(l[n], off, tgt)
         IN  IF prev[1] = 0 \/ delta <= prev[2] THEN <<n, delta>> ELSE prev

\* The loop of lines 75-84: state <<best_item, best_delta>> after the first
\* n items; best_item is an index, 0 standing for None.
RECURSIVE BestAfter(_, _, _, _)
BestAfter(l, n, off, tgt) ==
    IF n = 0 THEN <<0, -1>>
    ELSE LET prev == BestAfter(l, n - 1, off, tgt)
             delta == Delta(l[n], off, tgt)
         IN  IF prev[1] = 0 \/ delta < prev[2] THEN <<n, delta>> ELSE prev

\* best_item after the whole loop
BestItem(l, off, tgt) == BestAfter(l, Len(l), off, tgt)[1]

\* get_dinner_forecast from the parsed response on: the kind of result and
\* the index of the chosen sample.  data["list"][0] raises on an empty list.
DinnerForecast(l, tz, t, h) ==
    LET off == TzOffset(tz) IN
    IF ~TzValid(off) THEN [kind |-> "raised", idx |-> 0, tgt |-> 0]
    ELSE LET tgt == TargetLocal(t, off, h)
             best == BestItem(l, off, tgt)
         IN  IF best # 0 THEN [kind |-> "returned", idx |-> best, tgt |-> tgt]
             ELSE IF Len(l) = 0 THEN [kind |-> "raised", idx |-> 0, tgt |-> tgt]
             ELSE [kind |-> "returned", idx |-> 1, tgt |-> tgt]

\* ------------------------------------------------------------ JSON values
\* A value json.loads returns: t is its Python type, n its length (str, list)
\* or its number, kids the <<key, value>> members of a dict.
JStr == [t |-> "str", n |-> 1, kids |-> {}]
JEmptyStr == [t |-> "str", n |-> 0, kids |-> {}]
JNum == [t |-> "int", n |-> 20, kids |-> {}]
JNull == [t |-> "None", n |-> 0, kids |-> {}]
JList == [t |-> "list", n |-> 2, kids |-> {}]
JEmptyList == [t |-> "list", n |-> 0, kids |-> {}]
JDict(members) == [t |-> "dict", n |-> 0, kids |-> members]

\* k in d
Has(d, k) == \E p \in d.kids : p[1] = k
\* d[k] for a key that is there
Item(d, k) == (CHOOSE p \in d.kids : p[1] = k)[2]
\* d.get(k, default)
DictGet(d, k, default) == IF Has(d, k) THEN Item(d, k) ELSE default
\* bool(v)
Truthy(v) ==
    CASE v.t = "None" -> FALSE
      [] v.t = "dict" -> v.kids # {}
      [] OTHER -> v.n # 0
\* "for x in v" does not raise
Iterable(v) == v.t \in {"list", "str", "dict"}
\* v[k] with a string key does not raise
CanIndex(v, k) == v.t = "dict" /\ Has(v, k)

\* d with key k removed / set to v
Without(d, k) == JDict({p \in d.kids : p[1] # k})
With(d, k, v) == JDict({p \in d.kids : p[1] # k} \cup {<<k, v>>})

\* --------------------------------------------------- format_email (241-340)
\* CourseFormats reading servings with .get
CourseFormats_Lenient(menus, c) ==
    /\ CanIndex(menus, c)
    /\ LET a == Item(menus, c) IN
         /\ CanIndex(a, "name")
         /\ CanIndex(a, "time_minutes")
         /\ CanIndex(a, "ingredients") /\ Iterable(Item(a, "ingredients"))
         /\ CanIndex(a, "steps") /\ Iterable(Item(a, "steps"))

\* the appetizer and dessert blocks (272-282, 310-320) and the part of the
\* main block that is like them (285-293, 306-307) run without raising
CourseFormats(menus, c) ==
    /\ CanIndex(menus, c)
    /\ LET a == Item(menus, c) IN
         /\ CanIndex(a, "name")
         /\ CanIndex(a, "time_minutes")
         /\ CanIndex(a, "servings")
         /\ CanIndex(a, "ingredients") /\ Iterable(Item(a, "ingredients"))
         /\ CanIndex(a, "steps") /\ Iterable(Item(a, "steps"))

\* the side block of the main course (295-304) runs without raising
SideFormats(m) ==
    LET side == DictGet(m, "side", JNull) IN
    Truthy(side) =>
        /\ side.t = "dict"
        /\ Truthy(DictGet(side, "name", JNull)) =>
             /\ Iterable(DictGet(side, "ingredients", JEmptyList))
             /\ Iterable(DictGet(side, "steps", JEmptyList))

\* the shopping list block (323-331) runs without raising
ShoppingFormats(menu) ==
    LET shopping == DictGet(menu, "shopping_list", JDict({})) IN
    /\ shopping.t = "dict"
    /\ \A cat \in {"produce", "pantry", "dairy", "spices"} :
         LET items == DictGet(shopping, cat, JEmptyList) IN
         Truthy(items) => Iterable(items)

\* the compliance block (334-338) runs without raising
NotesFormat(menu) ==
    LET notes == DictGet(menu, "jain_compliance_notes", JEmptyList) IN
    Truthy(notes) => Iterable(notes)

\* "\n".join(lines) (340) accepts the two values appended as they are
\* (246, 269); every other line is an f-string
JoinAccepts(menu) ==
    /\ DictGet(menu, "title", JStr).t = "str"
    /\ DictGet(menu, "weather_fit_summary", JEmptyStr).t = "str"

\* format_email returns a body (TRUE) or raises (FALSE)
format_email(menu) ==
    /\ menu.t = "dict"
    /\ CanIndex(menu, "menu")
    /\ CourseFormats(Item(menu, "menu"), "appetizer")
    /\ CourseFormats(Item(menu, "menu"), "main")
    /\ SideFormats(Item(Item(menu, "menu"), "main"))
    /\ CourseFormats(Item(menu, "menu"), "dessert")
    /\ ShoppingFormats(menu)
    /\ NotesFormat(menu)
    /\ JoinAccepts(menu)

\* ----------------------------------- the output schema of the prompt (146-188)
CourseKeys == {"name", "time_minutes", "servings", "ingredients", "steps", "plating_note"}
SideKeys == {"name", "time_minutes", "ingredients", "steps"}
ShoppingKeys == {"produce", "pantry", "dairy", "spices"}
TopKeys == {"title", "weather_fit_summary", "menu", "shopping_list", "jain_compliance_notes"}
MenuKeys == {"appetizer", "main", "dessert"}

\* the Python type the schema gives a field
SchemaType(k) ==
    CASE k \in {"time_minutes", "servings"} -> "int"
      [] k \in {"ingredients", "steps", "jain_compliance_notes"} \cup ShoppingKeys -> "list"
      [] k \in {"menu", "shopping_list", "side"} \cup MenuKeys -> "dict"
      [] OTHER -> "str"

Keys(d) == {p[1] : p \in d.kids}
\* d is a dict with exactly the keys ks, each of the type the schema gives it
Shaped(d, ks) ==
    /\ d.t = "dict"
    /\ Keys(d) = ks
    /\ \A k \in ks : Item(d, k).t = SchemaType(k)

\* v has "this exact structure"
MatchesSchema(v) ==
    /\ Shaped(v, TopKeys)
    /\ Shaped(Item(v, "menu"), MenuKeys)
    /\ Shaped(Item(Item(v, "menu"), "appetizer"), CourseKeys)
    /\ \/ Shaped(Item(Item(v, "menu"), "main"), CourseKeys)
       \/ /\ Shaped(Item(Item(v, "menu"), "main"), CourseKeys \cup {"side"})
          /\ Shaped(Item(Item(Item(v, "menu"), "main"), "side"), SideKeys)
    /\ Shaped(Item(Item(v, "menu"), "dessert"), CourseKeys)
    /\ Shaped(Item(v, "shopping_list"), ShoppingKeys)

\* ------------------------------------------ replies of the generation service
ValidCourse ==
    JDict({<<"name", JStr>>, <<"time_minutes", JNum>>, <<"servings", JNum>>,
           <<"ingredients", JList>>, <<"steps", JList>>, <<"plating_note", JStr>>})
ValidSide ==
    JDict({<<"name", JStr>>, <<"time_minutes", JNum>>,
           <<"ingredients", JList>>, <<"steps", JList>>})
ValidMain == With(ValidCourse, "side", ValidSide)
ValidCourses ==
    JDict({<<"appetizer", ValidCourse>>, <<"main", ValidMain>>, <<"dessert", ValidCourse>>})
ValidShopping ==
    JDict({<<"produce", JList>>, <<"pantry", JList>>, <<"dairy", JList>>, <<"spices", JList>>})
ValidMenu ==
    JDict({<<"title", JStr>>, <<"weather_fit_summary", JStr>>, <<"menu", ValidCourses>>,
           <<"shopping_list", ValidShopping>>, <<"jain_compliance_notes", JList>>})

\* the values put in place of a member
Alts == {JStr, JEmptyStr, JNum, JNull, JList, JEmptyList, JDict({})}
\* d with one member of ks removed or replaced
Edits(d, ks) == {Without(d, k) : k \in ks} \cup {With(d, k, v) : k \in ks, v \in Alts}

InCourses(e) == With(ValidMenu, "menu", e)
\* JSON documents the service may return: the one the prompt asks for, and
\* every document one removal or replacement away from it
Menus ==
    {ValidMenu} \cup Alts
    \cup Edits(ValidMenu, TopKeys)
    \cup {InCourses(e) : e \in Edits(ValidCourses, MenuKeys)}
    \cup {InCourses(With(ValidCourses, "appetizer", e)) : e \in Edits(ValidCourse, CourseKeys)}
    \cup {InCourses(With(ValidCourses, "main", e)) : e \in Edits(ValidMain, CourseKeys \cup {"side"})}
    \cup {InCourses(With(ValidCourses, "main", With(ValidMain, "side", e))) :
             e \in Edits(ValidSide, SideKeys)}
    \cup {InCourses(With(ValidCourses, "dessert", e)) : e \in Edits(ValidCourse, CourseKeys)}
    \cup {With(ValidMenu, "shopping_list", e) : e \in Edits(ValidShopping, ShoppingKeys)}

\* what requests.post and the lines 213-217 can meet: an error status, a
\* body without output[0].content[0].text, a text that is not JSON, a text
\* that is the JSON document value
Replies ==
    {[status |-> st, value |-> JNull] : st \in {"http_error", "no_text", "not_json"}}
    \cup {[status |-> "json", value |-> v] : v \in Menus}

NoReply == [status |-> "none", value |-> JNull]

\* ----------------------------------------- the dict returned (lines 86-104)
\* strftime("%Y-%m-%d %I:%M %p") of a wall clock: the date as days since the
\* epoch, the hour on the 12-hour clock, the minute, AM or PM
strftime(wall) ==
    LET h == (wall % DaySeconds) \div HourSeconds
        m == (wall % HourSeconds) \div 60
    IN  <<wall \div DaySeconds, IF h % 12 = 0 THEN 12 ELSE h % 12, m,
          IF h < 12 THEN "AM" ELSE "PM">>

Weathers ==
    {[temp |-> 95, feels_like |-> 99, humidity |-> 70, description |-> "clear sky", speed |-> 4],
     [temp |-> 72, feels_like |-> 71, humidity |-> 88, description |-> "light rain", speed |-> 9],
     [temp |-> 31, feels_like |-> 22, humidity |-> 40, description |-> "snow", speed |-> 18]}

dinner_forecast(location, h, dt, off, w) ==
    [location |-> location,
     dinner_hour_local |-> h,
     forecast_time_local |-> strftime(LocalWall(dt, off)),
     temp_f |-> w.temp,
     feels_like_f |-> w.feels_like,
     humidity_pct |-> w.humidity,
     conditions |-> w.description,
     wind_mph |-> w.speed]

NoForecast ==
    [location |-> "", dinner_hour_local |-> 0, forecast_time_local |-> <<0, 0, 0, "">>,
     temp_f |-> 0, feels_like_f |-> 0, humidity_pct |-> 0, conditions |-> "", wind_mph |-> 0]

\* ------------------------------------- the generation request (lines 113-212)
system_prompt ==
    <<"You are a professional Indian home chef specializing in HEALTHY Jain vegetarian cooking.",
      "STRICT RULES (must follow):",
      "- Vegetarian only.",
      "- NO onion, NO garlic.",
      "- Avoid root vegetables: potato, carrot, beet, radish, sweet potato, yam, etc.",
      "- Use hing (asafoetida), ginger, tomatoes, herbs, and spices for flavor depth.",
      "- Healthy bias: steaming, simmering, roasting, light sauteing.",
      "- Avoid deep frying.",
      "- Moderate oil and sugar; desserts should be lighter when hot/humid.",
      "- Recipes must be realistic, cookable, and weeknight-appropriate.",
      "- Tone: polished, professional, cookbook-quality.",
      "- Do NOT mention AI, disclaimers, or long preambles.">>

\* json.dumps(d, indent=2): the members in the dict's insertion order, each
\* a key and its encoded value
json_dumps(d) ==
    << <<"location", d.location>>,
       <<"dinner_hour_local", d.dinner_hour_local>>,
       <<"forecast_time_local", d.forecast_time_local>>,
       <<"temp_f", d.temp_f>>,
       <<"feels_like_f", d.feels_like_f>>,
       <<"humidity_pct", d.humidity_pct>>,
       <<"conditions", d.conditions>>,
       <<"wind_mph", d.wind_mph>> >>

\* the structure between "Return STRICT JSON ONLY" and "Rules:" (144-188),
\* member by member
output_schema ==
    <<"title: string",
      "weather_fit_summary: string",
      "menu.appetizer: name string, time_minutes integer, servings integer, ingredients [string], steps [string], plating_note string",
      "menu.main: name string, time_minutes integer, servings integer, ingredients [string], steps [string], side, plating_note string",
      "menu.main.side: name string, time_minutes integer, ingredients [string], steps [string]",
      "menu.dessert: name string, time_minutes integer, servings integer, ingredients [string], steps [string], plating_note string",
      "shopping_list: produce [string], pantry [string], dairy [string], spices [string]",
      "jain_compliance_notes: [string]">>

\* user_prompt with rules that follow the forecast
user_prompt_Adaptive(d) ==
    [basis |-> "The menu MUST be based on the DINNER-TIME FORECAST (around 7:00 PM local), not the current weather.",
     heading |-> <<"Dinner-time forecast for", d.location>>,
     context |-> json_dumps(d),
     courses |-> <<"Create a COMPLETE Indian Jain dinner menu with:",
                   "1 Appetizer", "1 Main (include a simple side if appropriate)", "1 Dessert">>,
     fit |-> <<"Make the menu fit the dinner-time forecast:",
               "- Cold / windy / rainy -> warm, comforting foods",
               "- Hot / humid -> lighter, cooling foods",
               "- Mild -> balanced, healthy meal">>,
     schema |-> <<"Return STRICT JSON ONLY in this exact structure:", output_schema>>,
     rules |-> IF d.temp_f > 90
               THEN <<"Rules:", "- Cooling dishes only.">>
               ELSE <<"Rules:",
                      "- Absolutely no onion, no garlic, no root vegetables.",
                      "- Keep steps clear, specific, and cookable.",
                      "- Use common household measurements (cups/tbsp/tsp).",
                      "- Professional tone only.">>]

\* the f-string of lines 128-195, segment by segment
user_prompt(d) ==
    [basis |-> "The menu MUST be based on the DINNER-TIME FORECAST (around 7:00 PM local), not the current weather.",
     heading |-> <<"Dinner-time forecast for", d.location>>,
     context |-> json_dumps(d),
     courses |-> <<"Create a COMPLETE Indian Jain dinner menu with:",
                   "1 Appetizer", "1 Main (include a simple side if appropriate)", "1 Dessert">>,
     fit |-> <<"Make the menu fit the dinner-time forecast:",
               "- Cold / windy / rainy -> warm, comforting foods",
               "- Hot / humid -> lighter, cooling foods",
               "- Mild -> balanced, healthy meal">>,
     schema |-> <<"Return STRICT JSON ONLY in this exact structure:", output_schema>>,
     rules |-> <<"Rules:",
                 "- Absolutely no onion, no garlic, no root vegetables.",
                 "- Keep steps clear, specific, and cookable.",
                 "- Use common household measurements (cups/tbsp/tsp).",
                 "- Professional tone only.">>]

\* the json= argument of requests.post (203-210)
request_json(d) ==
    [model |-> "gpt-4.1-mini",
     input |-> << [role |-> "system", content |-> <<system_prompt>>],
                  [role |-> "user", content |-> <<user_prompt(d)>>] >>,
     text |-> "json_object"]

NoRequest == [model |-> "", input |-> << >>, text |-> ""]

\* --------------------------------------------------------- main (343-360)
Required == {"OPENWEATHER_API_KEY", "OPENAI_API_KEY", "EMAIL_FROM", "EMAIL_TO",
             "SMTP_USER", "SMTP_PASS"}
EnvNames == Required \cup {"LOCATION"}

\* os.environ.get("LOCATION", "Baltimore,MD,US")
Location(e) == IF "LOCATION" \in e THEN "Mumbai,IN" ELSE "Baltimore,MD,US"

\* the forecast responses the weather provider gives the run: an empty list;
\* items at 16:00 and 19:30 local, five hours west of UTC; three items on the
\* three-hour grid and no timezone
PipeResponses ==
    {[list |-> << >>, wx |-> << >>, tz |-> <<-18000>>],
     [list |-> <<DaySeconds + 21 * HourSeconds, 2 * DaySeconds + 1800>>,
      wx |-> <<[temp |-> 95, feels_like |-> 99, humidity |-> 70, description |-> "clear sky", speed |-> 4],
               [temp |-> 72, feels_like |-> 71, humidity |-> 88, description |-> "light rain", speed |-> 9]>>,
      tz |-> <<-18000>>],
     [list |-> <<DaySeconds + 15 * HourSeconds, DaySeconds + 18 * HourSeconds,
                 DaySeconds + 21 * HourSeconds>>,
      wx |-> <<[temp |-> 31, feels_like |-> 22, humidity |-> 40, description |-> "snow", speed |-> 18],
               [temp |-> 31, feels_like |-> 22, humidity |-> 40, description |-> "snow", speed |-> 18],
               [temp |-> 72, feels_like |-> 71, humidity |-> 88, description |-> "light rain", speed |-> 9]>>,
      tz |-> NoTz]}

PipeNows == {DaySeconds + 3 * HourSeconds, DaySeconds + 22 * HourSeconds}

SelIdle ==
    /\ list = << >> /\ cityTz = NoTz /\ now = 0 /\ hour = 19
    /\ spc = "input" /\ cmp = "none" /\ outcome = "none" /\ chosen = 0
    /\ target = 0 /\ shift = 0 /\ chosenB = 0 /\ outcomeB = "none"

PipeIdle ==
    /\ wx = << >> /\ env = {} /\ pc = "idle" /\ calls = << >>
    /\ failure = "none" /\ sends = 0 /\ sent = 0
    /\ forecast = NoForecast /\ reply = NoReply /\ request = NoRequest
    /\ forecastB = NoForecast /\ requestB = NoRequest

PipeInit ==
    /\ SelIdle
    /\ wx = << >>
    /\ env \in SUBSET EnvNames
    /\ pc = "main"
    /\ calls = << >>
    /\ failure = "none"
    /\ sends = 0
    /\ sent = 0
    /\ forecast = NoForecast
    /\ reply = NoReply
    /\ request = NoRequest
    /\ forecastB = NoForecast
    /\ requestB = NoRequest

\* an exception leaves main: nothing after it runs
Fails(why) ==
    /\ pc' = "failed"
    /\ failure' = why

\* lines 345-346: os.environ["OPENWEATHER_API_KEY"]
Main ==
    /\ pc = "main"
    /\ IF "OPENWEATHER_API_KEY" \in env
       THEN pc' = "get_current_weather" /\ UNCHANGED failure
       ELSE Fails("config")
    /\ UNCHANGED <<svars, wx, env, calls, sends, sent, forecast, reply, request,
                   forecastB, requestB>>

\* line 349: get_current_weather(location, ow_key); raise_for_status or the
\* transport may raise
CallGetCurrentWeather ==
    /\ pc = "get_current_weather"
    /\ calls' = Append(calls, "weather")
    /\ \E ok \in BOOLEAN :
         IF ok THEN pc' = "get_dinner_forecast" /\ UNCHANGED failure
         ELSE Fails("transport")
    /\ UNCHANGED <<svars, wx, env, sends, sent, forecast, reply, request,
                   forecastB, requestB>>

\* line 352: get_dinner_forecast(location, ow_key, dinner_hour_local=19)
CallGetDinnerForecast ==
    /\ pc = "get_dinner_forecast"
    /\ calls' = Append(calls, "forecast")
    /\ \/ /\ Fails("transport")
          /\ UNCHANGED <<svars, wx, forecast>>
       \/ \E r \in PipeResponses, t \in PipeNows :
            LET res == DinnerForecast(r.list, r.tz, t, 19) IN
            /\ list' = r.list /\ wx' = r.wx /\ cityTz' = r.tz /\ now' = t
            /\ hour' = 19
            /\ outcome' = res.kind /\ chosen' = res.idx /\ target' = res.tgt
            /\ spc' = "selected"
            /\ UNCHANGED <<cmp, shift, chosenB, outcomeB>>
            /\ IF res.kind = "returned"
               THEN /\ forecast' = dinner_forecast(Location(env), 19, r.list[res.idx],
                                                   TzOffset(r.tz), r.wx[res.idx])
                    /\ pc' = "generate_jain_menu"
                    /\ UNCHANGED failure
               ELSE /\ Fails("forecast")
                    /\ UNCHANGED forecast
    /\ UNCHANGED <<env, sends, sent, reply, request, forecastB, requestB>>

\* json.loads(text) returns
Parses(r) == r.status = "json"

\* line 354: generate_jain_menu(dinner_forecast)
CallGenerateJainMenu ==
    /\ pc = "generate_jain_menu"
    /\ IF "OPENAI_API_KEY" \notin env
       THEN Fails("config") /\ UNCHANGED <<calls, request, reply>>
       ELSE /\ request' = request_json(forecast)
            /\ calls' = Append(calls, "generation")
            /\ \E r \in Replies :
                 /\ reply' = r
                 /\ IF r.status = "http_error" THEN Fails("transport")
                    ELSE IF ~Parses(r) THEN Fails("parse")
                    ELSE pc' = "format_email" /\ UNCHANGED failure
    /\ UNCHANGED <<svars, wx, env, sends, sent, forecast, forecastB, requestB>>

\* lines 356-357: the subject, then format_email(current_weather,
\* dinner_forecast, menu)
CallFormatEmail ==
    /\ pc = "format_email"
    /\ IF format_email(reply.value)
       THEN pc' = "send_email" /\ UNCHANGED failure
       ELSE Fails("format")
    /\ UNCHANGED <<svars, wx, env, calls, sends, sent, forecast, reply, request,
                   forecastB, requestB>>

\* what SMTP_SSL(...), server.login and server.send_message can do
SmtpResults == {"connect_failed", "login_failed", "send_failed", "sent"}

\* CallSendEmail trying send_message again when it failed
CallSendEmail_Retry ==
    /\ pc = "send_email"
    /\ sends < 3
    /\ IF ~({"EMAIL_FROM", "EMAIL_TO", "SMTP_USER", "SMTP_PASS"} \subseteq env)
       THEN Fails("config") /\ UNCHANGED <<calls, sends, sent>>
       ELSE /\ calls' = IF sends = 0 THEN Append(calls, "smtp") ELSE calls
            /\ \E r \in SmtpResults :
                 /\ sends' = IF r \in {"send_failed", "sent"} THEN sends + 1 ELSE sends
                 /\ sent' = IF r = "sent" THEN sent + 1 ELSE sent
                 /\ IF r = "sent" THEN pc' = "done" /\ UNCHANGED failure
                    ELSE IF r = "send_failed" THEN UNCHANGED <<pc, failure>>
                    ELSE Fails("transport")
    /\ UNCHANGED <<svars, wx, env, forecast, reply, request, forecastB, requestB>>

\* lines 359-360: send_email(subject, body), then the print
CallSendEmail ==
    /\ pc = "send_email"
    /\ IF ~({"EMAIL_FROM", "EMAIL_TO", "SMTP_USER", "SMTP_PASS"} \subseteq env)
       THEN Fails("config") /\ UNCHANGED <<calls, sends, sent>>
       ELSE /\ calls' = Append(calls, "smtp")
            /\ \E r \in SmtpResults :
                 /\ sends' = IF r \in {"send_failed", "sent"} THEN sends + 1 ELSE sends
                 /\ sent' = IF r = "sent" THEN sent + 1 ELSE sent
                 /\ IF r = "sent" THEN pc' = "done" /\ UNCHANGED failure
                    ELSE Fails("transport")
    /\ UNCHANGED <<svars, wx, env, forecast, reply, request, forecastB, requestB>>

PipeNext ==
    \/ Main
    \/ CallGetCurrentWeather
    \/ CallGetDinnerForecast
    \/ CallGenerateJainMenu
    \/ CallFormatEmail
    \/ CallSendEmail

PipeSpec == PipeInit /\ [][PipeNext]_vars

\* ------------------------------- two invocations of generate_jain_menu
Locations == {"Baltimore,MD,US", "Mumbai,IN"}

\* the dicts get_dinner_forecast can return for the samples of the model
ForecastDicts ==
    {dinner_forecast(loc, 19, dt, off, w) :
        loc \in Locations, dt \in SampleTimes, off \in Offsets, w \in Weathers}

ReqInit ==
    /\ SelIdle
    /\ wx = << >> /\ env = Required /\ calls = << >>
    /\ failure = "none" /\ sends = 0 /\ sent = 0
    /\ reply = NoReply /\ request = NoRequest /\ requestB = NoRequest
    /\ forecast \in ForecastDicts
    /\ forecastB \in ForecastDicts
    /\ pc = "first"

\* lines 113-210 of one invocation: the payload handed to requests.post
BuildFirst ==
    /\ pc = "first"
    /\ request' = request_json(forecast)
    /\ pc' = "second"
    /\ UNCHANGED <<svars, wx, env, calls, failure, sends, sent, forecast, reply,
                   forecastB, requestB>>

\* the same lines of another invocation
BuildSecond ==
    /\ pc = "second"
    /\ requestB' = request_json(forecastB)
    /\ pc' = "built"
    /\ UNCHANGED <<svars, wx, env, calls, failure, sends, sent, forecast, reply,
                   request, forecastB>>

ReqNext == BuildFirst \/ BuildSecond

ReqSpec == ReqInit /\ [][ReqNext]_vars

\* ------------------------------------------------- selector specification
Lists == UNION {[1..n -> SampleTimes] : n \in 0..MaxLen}

SelInit ==
    /\ list \in Lists
    /\ cityTz \in {<<o>> : o \in Offsets} \cup {NoTz}
    /\ now \in Nows
    /\ hour \in Hours
    /\ spc = "input"
    /\ cmp = "none"
    /\ outcome = "none"
    /\ chosen = 0
    /\ target = 0
    /\ shift = 0
    /\ chosenB = 0
    /\ outcomeB = "none"
    /\ PipeIdle

\* one call of get_dinner_forecast on the response
Select ==
    /\ spc = "input"
    /\ LET r == DinnerForecast(list, cityTz, now, hour) IN
         /\ outcome' = r.kind
         /\ chosen' = r.idx
         /\ target' = r.tgt
    /\ spc' = "selected"
    /\ UNCHANGED <<list, cityTz, now, hour, cmp, shift, chosenB, outcomeB>>
    /\ UNCHANGED pvars

\* The list with every dt moved by d
ShiftList(l, d) == [i \in 1..Len(l) |-> l[i] + d]

\* records a comparison run r of kind c made with shift d
Compared(c, d, r) ==
    /\ spc = "selected"
    /\ spc' = "compared"
    /\ cmp' = c
    /\ shift' = d
    /\ chosenB' = r.idx
    /\ outcomeB' = r.kind
    /\ UNCHANGED <<list, cityTz, now, hour, outcome, chosen, target>>
    /\ UNCHANGED pvars

\* a second call on the identical response at the identical instant
SelectAgain ==
    Compared("repeat", 0, DinnerForecast(list, cityTz, now, hour))

\* the call on the same response with "timezone": 0 supplied, made when the
\* response carried no timezone
SelectWithZero ==
    /\ cityTz = NoTz
    /\ Compared("default", 0, DinnerForecast(list, <<0>>, now, hour))

\* the call on a response whose every dt and whose timezone are moved by the
\* same amount, at the same instant
SelectShifted ==
    \E d \in Shifts :
        Compared("shift", d,
                 DinnerForecast(ShiftList(list, d), <<TzOffset(cityTz) + d>>, now, hour))

\* the call on a response whose timezone is moved by d while every dt and the
\* current instant are moved by -d, so that every wall-clock reading is kept
SelectSameWall ==
    \E d \in Shifts :
        Compared("local", d,
                 DinnerForecast(ShiftList(list, -d), <<TzOffset(cityTz) + d>>, now - d, hour))

SelNext == Select \/ SelectAgain \/ SelectWithZero \/ SelectShifted \/ SelectSameWall

SelSpec == SelInit /\ [][SelNext]_vars

\* ------------------------------------------------------ selector claims
\* what the first call worked with, restated from the inputs
offNow == IF cityTz = NoTz THEN 0 ELSE cityTz[1]
wallNow == now + offNow
distTo(i) == IF list[i] + offNow >= target THEN list[i] + offNow - target
             ELSE target - (list[i] + offNow)

\* C1: on a non-empty forecast list the call returns a sample whose absolute
\* distance in seconds to the target instant is at most that of every other
\* sample of the list.
C1_SelectsClosest ==
    (spc # "input" /\ list # << >>) =>
        /\ outcome = "returned"
        /\ chosen \in 1..Len(list)
        /\ \A j \in 1..Len(list) : distTo(chosen) <= distTo(j)

C1_Witness ==
    /\ spc = "selected" /\ outcome = "returned" /\ Len(list) >= 2
    /\ chosen = 2
    /\ \E j \in 1..Len(list) : distTo(chosen) < distTo(j)

\* C2: the target is hour:00:00 of the current local date when local now is
\* strictly before it and one day later when local now is at or past it, so
\* it lies strictly after now and at most 24 hours after it.
C2_NextOccurrence ==
    (spc # "input" /\ target # 0) =>
        LET today == (wallNow \div DaySeconds) * DaySeconds + hour * HourSeconds IN
        /\ (wallNow < today => target = today)
        /\ (wallNow >= today => target = today + DaySeconds)
        /\ target > wallNow
        /\ target - wallNow <= DaySeconds

C2_Witness ==
    /\ spc = "selected" /\ outcome = "returned"
    /\ wallNow = (wallNow \div DaySeconds) * DaySeconds + hour * HourSeconds
    /\ target = wallNow + DaySeconds

\* C3: when several samples share the minimum distance the call returns the
\* first of them in input order, and a repeated call on the identical input
\* returns the same sample.
C3_FirstOfTies ==
    /\ (spc # "input" /\ outcome = "returned") =>
          \A j \in 1..Len(list) : distTo(j) = distTo(chosen) => chosen <= j
    /\ (cmp = "repeat") => (outcomeB = outcome /\ chosenB = chosen)

C3_Witness ==
    /\ cmp = "repeat" /\ outcome = "returned"
    /\ \E j \in 1..Len(list) :
          j > chosen /\ list[j] # list[chosen] /\ distTo(j) = distTo(chosen)

\* C4: on an empty forecast list the call does not raise but returns a
\* default sample.
C4_EmptyDoesNotRaise ==
    (spc # "input" /\ list = << >>) => outcome = "returned"

\* C8 as stated: moving every dt and the timezone offset by the same amount,
\* at the same current instant, leaves the index of the chosen sample as it
\* was.
C8_ShiftSamplesAndOffset ==
    (cmp = "shift" /\ outcome = "returned" /\ outcomeB = "returned") =>
        chosenB = chosen

\* C8 amended: moving the timezone offset by d and every dt and the current
\* instant by -d, which keeps every local wall-clock reading, leaves the
\* index of the chosen sample (and whether the call returns) as it was.
C8_SameWallClock ==
    (cmp = "local" /\ -DaySeconds < offNow + shift /\ offNow + shift < DaySeconds) =>
        (outcomeB = outcome /\ chosenB = chosen)

C8_Witness ==
    /\ cmp = "local" /\ shift # 0 /\ outcome = "returned" /\ Len(list) >= 2
    /\ chosenB = 2
    /\ \E j \in 1..Len(list) : distTo(j) # distTo(chosen)

\* C10: a response that carries no timezone does not make the call fail: the
\* call works with offset 0 and returns what it returns when "timezone": 0
\* is supplied.
C10_MissingOffsetIsUtc ==
    (spc # "input" /\ cityTz = NoTz) =>
        /\ (list # << >> => outcome = "returned")
        /\ (target # 0 => target - now \in 1..DaySeconds
                           /\ target % DaySeconds = hour * HourSeconds)
        /\ (cmp = "default" => (outcomeB = outcome /\ chosenB = chosen))

C10_Witness ==
    /\ cmp = "default" /\ cityTz = NoTz /\ outcome = "returned"
    /\ chosenB = 2 /\ Len(list) >= 2

\* ------------------------------------------------------ pipeline claims
\* C5 as stated: a run that fails on a missing configuration value has made
\* no network call.
C5_ConfigFailsBeforeNetwork ==
    failure = "config" => calls = << >>

\* C6: the send is attempted at most once and only after both weather
\* fetches, the generation call, the parse and the formatting succeeded; a
\* failed step ends the run, nothing is run after it and nothing is run
\* twice; a run ends with one notification sent or with none.
C6_State ==
    /\ sends <= 1
    /\ sent <= sends
    /\ \A i, j \in 1..Len(calls) : calls[i] = calls[j] => i = j
    /\ sends = 1 =>
         /\ calls = <<"weather", "forecast", "generation", "smtp">>
         /\ outcome = "returned"
         /\ reply.status = "json"
         /\ reply.value.t = "dict"
         /\ pc \in {"done", "failed"}
    /\ failure # "none" <=> pc = "failed"
    /\ pc = "failed" => sent = 0
    /\ pc = "done" => sent = 1
C6_Step ==
    /\ pc \notin {"done", "failed"}
    /\ failure = "none"
    /\ Len(calls') <= Len(calls) + 1
    /\ sends = 0
C6_OneSendOrNone == [](C6_State) /\ [][C6_Step]_vars

C6_Witness == pc = "done" /\ sends = 1 /\ sent = 1

\* what format_email subscripts: the "menu" dict, its three courses, and in
\* each course name, time_minutes, servings, ingredients and steps
needed == {"name", "time_minutes", "servings", "ingredients", "steps"}
hasKey(v, k) == v.t = "dict" /\ \E p \in v.kids : p[1] = k
valueAt(v, k) == (CHOOSE p \in v.kids : p[1] = k)[2]
lacksNeeded(v) ==
    \/ ~hasKey(v, "menu")
    \/ \E c \in {"appetizer", "main", "dessert"} :
         \/ ~hasKey(valueAt(v, "menu"), c)
         \/ \E k \in needed : ~hasKey(valueAt(valueAt(v, "menu"), c), k)

fixedParts == {"basis", "courses", "fit", "schema", "rules"}
C9_OnlyContextVaries ==
    pc = "built" =>
        LET u == request.input[2].content[1]
            uB == requestB.input[2].content[1]
        IN  /\ request.model = requestB.model
            /\ request.text = requestB.text
            /\ request.input[1] = requestB.input[1]
            /\ request.input[2].role = requestB.input[2].role
            /\ \A part \in fixedParts : u[part] = uB[part]
            /\ u.heading[1] = uB.heading[1]
            /\ u.heading[2] = forecast.location
            /\ {u.context[i][1] : i \in 1..Len(u.context)} = DOMAIN forecast
            /\ \A i \in 1..Len(u.context) : u.context[i][2] = forecast[u.context[i][1]]
            /\ \A i \in 1..Len(uB.context) : uB.context[i][2] = forecastB[uB.context[i][1]]

C9_Witness ==
    /\ pc = "built"
    /\ forecast.temp_f # forecastB.temp_f
    /\ forecast.conditions # forecastB.conditions
    /\ request # requestB

====
